---- MODULE Spec2Model ----
(***************************************************************************)
(* Model of the DrawableCanvas widget                                      *)
(* (streamlit_drawable_canvas/frontend/src/DrawableCanvas.tsx).            *)
(*                                                                         *)
(* The widget owns two fabric canvases (drawing layer `canvas`, image      *)
(* layer `backgroundCanvas`), the undo/redo state returned by              *)
(* useCanvasState, the closure state of the pointer handlers registered by *)
(* the tool effect, and the image loads started by the background effect.  *)
(* Everything runs on one browser event loop: every handler, and the       *)
(* render and effects it triggers, is one atomic action.                   *)
(*                                                                         *)
(* DrawableCanvasState (useCanvasState), components/UpdateStreamlit,       *)
(* components/CanvasToolbar and the tools of ./lib are imported by the     *)
(* component; their behaviour is taken from the specification.             *)
(* src/unnamed/part_000 is an earlier revision of the same component (no   *)
(* clamps in the wheel handler, no test in mouse:down, no resetZoom, and a *)
(* mouse:dblclick handler that saves the state); the model follows         *)
(* DrawableCanvas.tsx.                                                     *)
(*                                                                         *)
(* Numbers.  JavaScript doubles are modelled in fixed point: a zoom factor *)
(* is an integer number of 1/ZoomScale, 0.999 ** delta is an integer       *)
(* number of 1/PowScale, divisions round down.  Lengths (canvas sizes,     *)
(* pointer coordinates, viewport offsets) are whole numbers of one length  *)
(* unit of any number of pixels: the handlers are homogeneous in lengths.  *)
(***************************************************************************)
EXTENDS Integers, Sequences, FiniteSets, TLC

VARIABLES
    canvasWidth, canvasHeight,      \* props (PythonArgs)
    realtimeUpdateStreamlit,        \* prop
    initialDrawing,                 \* prop
    backgroundImageURL,             \* prop
    fabricWidth, fabricHeight,      \* canvas.getWidth() / canvas.getHeight()
    canvasVpt,                      \* canvas zoom and viewportTransform[4], [5]
    backgroundVpt,                  \* the same of backgroundCanvas
    canvasObjects,                  \* objects on the drawing canvas
    backgroundObjects,              \* objects on backgroundCanvas, bottom to top
    isDragging, lastPosX, lastPosY, \* locals of the tool effect's closure
    canvasState,                    \* what useCanvasState() holds
    shouldSendToStreamlit,          \* props handed to <UpdateStreamlit>
    stateToSendToStreamlit,
    hostValue,                      \* the snapshot the host holds
    pendingLoads,                   \* Image objects whose onload has not run
    nLoads,                         \* image loads started so far
    streamlitUrl,                   \* the page's streamlitUrl query parameter
    lastEvent                       \* the event handled last (history variable)

propVars == <<canvasWidth, canvasHeight, realtimeUpdateStreamlit, initialDrawing>>
viewVars == <<fabricWidth, fabricHeight, canvasVpt, backgroundVpt>>
dragVars == <<isDragging, lastPosX, lastPosY>>
stateVars == <<canvasObjects, canvasState, shouldSendToStreamlit,
               stateToSendToStreamlit>>
imageVars == <<backgroundImageURL, backgroundObjects, pendingLoads, nLoads,
               streamlitUrl>>
vars == <<propVars, viewVars, dragVars, stateVars, imageVars, hostValue, lastEvent>>

----------------------------------------------------------------------------
(* Units and bounds *)

ZoomScale == 1000
PowScale == 1000

MAX_ZOOM == 10

\* Capacity of the undo/redo ring.
MaxHistory == 3
\* Most objects a drawing holds.
MaxObjects == 1
\* Largest |viewportTransform[4]|, |viewportTransform[5]| explored.
MaxPan == 1
\* Most image loads started.
MaxLoads == 2

\* canvasWidth / canvasHeight values the host passes.
Sizes == {1, 32}
\* Position of a pointer event, relative to the canvas element.
Pointers == {<<0, 0>>, <<1, 0>>, <<1, 1>>}
\* WheelEvent.deltaY values.
WheelDeltas == {-693, 693}
\* e.button as fabric reports it (1 left, 3 right; fireRightClick is set,
\* fireMiddleClick is not).
Buttons == {1, 3}

Min(a, b) == IF a < b THEN a ELSE b
Max(a, b) == IF a > b THEN a ELSE b

----------------------------------------------------------------------------
(* Drawings *)

Path == "path"
ObjectLists == UNION {[1..n -> {Path}] : n \in 0..MaxObjects}

\* canvas.toJSON(): the serialized drawing document.
ToJSON(objs) == [version |-> "4", objects |-> objs]

\* canvas.loadFromJSON(doc, cb): the objects the canvas holds afterwards.
LoadFromJSON(doc) == doc.objects

Docs == {ToJSON(o) : o \in ObjectLists}

\* What the host holds before the widget has sent anything.
NoValue == [version |-> "(none)", objects |-> <<>>]

\* What the selected tool's own handler does to the canvas on an event.
ToolEdits == {"none", "add", "remove"}

ToolEdit(objs, edit) ==
    CASE edit = "add" /\ Len(objs) < MaxObjects -> Append(objs, Path)
      [] edit = "remove" /\ Len(objs) > 0 -> SubSeq(objs, 1, Len(objs) - 1)
      [] OTHER -> objs

----------------------------------------------------------------------------
(* useCanvasState: the undo/redo history, a linear sequence of snapshots   *)
(* with one current index, and the action flags the render reads.          *)

NO_ACTION == [shouldReloadCanvas |-> FALSE, forceSendToStreamlit |-> FALSE]
RELOAD_CANVAS == [shouldReloadCanvas |-> TRUE, forceSendToStreamlit |-> FALSE]
SEND_TO_STREAMLIT == [shouldReloadCanvas |-> FALSE, forceSendToStreamlit |-> TRUE]
RELOAD_AND_SEND_TO_STREAMLIT ==
    [shouldReloadCanvas |-> TRUE, forceSendToStreamlit |-> TRUE]

\* resetState(state): the history restarts from `state`.
ResetState(cs, state) ==
    [history |-> <<state>>, index |-> 1, currentState |-> state,
     initialState |-> state, action |-> RELOAD_AND_SEND_TO_STREAMLIT]

\* saveState(state): the snapshots after the current one are dropped, `state`
\* is appended and becomes current; a full ring drops its oldest snapshot.
SaveState(cs, state) ==
    LET kept == Append(SubSeq(cs.history, 1, cs.index), state)
        h == IF Len(kept) > MaxHistory THEN Tail(kept) ELSE kept
    IN  [cs EXCEPT !.history = h, !.index = Len(h), !.currentState = state,
                   !.action = NO_ACTION]

CanUndo(cs) == cs.index > 1
CanRedo(cs) == cs.index < Len(cs.history)

Undo_KeepsCurrentState(cs) ==
    IF CanUndo(cs)
    THEN [cs EXCEPT !.index = cs.index - 1, !.action = RELOAD_CANVAS]
    ELSE cs

\* undo(): one snapshot back.
Undo(cs) ==
    IF CanUndo(cs)
    THEN [cs EXCEPT !.index = cs.index - 1,
                    !.currentState = cs.history[cs.index - 1],
                    !.action = RELOAD_CANVAS]
    ELSE cs

\* redo(): one snapshot forward.
Redo(cs) ==
    IF CanRedo(cs)
    THEN [cs EXCEPT !.index = cs.index + 1,
                    !.currentState = cs.history[cs.index + 1],
                    !.action = RELOAD_CANVAS]
    ELSE cs

\* forceStreamlitUpdate(): asks the next render to send.
ForceStreamlitUpdate(cs) == [cs EXCEPT !.action = SEND_TO_STREAMLIT]

----------------------------------------------------------------------------
(* The render: props of <UpdateStreamlit>, and the effects a render runs   *)

ShouldSendToStreamlit_RealtimeOnly(realtime, cs) == realtime

\* shouldSendToStreamlit={realtimeUpdateStreamlit || forceSendToStreamlit}
ShouldSendToStreamlit(realtime, cs) ==
    realtime \/ cs.action.forceSendToStreamlit

\* stateToSendToStreamlit={currentState}
StateToSendToStreamlit(cs) == cs.currentState

\* "If state changed from undo/redo/reset, update user-facing canvas": the
\* effect runs when shouldReloadCanvas or currentState changed, and reloads
\* when shouldReloadCanvas is set.  The drawing canvas' objects afterwards.
ReloadEffect(objs, cs) ==
    IF /\ cs.action.shouldReloadCanvas
       /\ \/ cs.action.shouldReloadCanvas # canvasState.action.shouldReloadCanvas
          \/ cs.currentState # canvasState.currentState
    THEN LoadFromJSON(cs.currentState)
    ELSE objs

\* A render with hook state `cs`, after the handlers left `objs` on the canvas.
Render(realtime, cs, objs) ==
    /\ canvasState' = cs
    /\ canvasObjects' = ReloadEffect(objs, cs)
    /\ shouldSendToStreamlit' = ShouldSendToStreamlit(realtime, cs)
    /\ stateToSendToStreamlit' = StateToSendToStreamlit(cs)

\* The tool effect runs again: its cleanup removes the handlers, and the new
\* handlers close over fresh locals.
RegisterHandlers ==
    /\ isDragging' = FALSE
    /\ lastPosX' = 0
    /\ lastPosY' = 0

----------------------------------------------------------------------------
(* fabric viewport operations *)

IdentityVpt == [zoom |-> ZoomScale, x |-> 0, y |-> 0]

\* canvas.zoomToPoint(point, value): `point` keeps its place on screen.
ZoomToPoint(vpt, px, py, value) ==
    [zoom |-> value,
     x |-> px - (((px - vpt.x) * value) \div vpt.zoom),
     y |-> py - (((py - vpt.y) * value) \div vpt.zoom)]

\* canvas.relativePan(point)
RelativePan(vpt, dx, dy) == [vpt EXCEPT !.x = vpt.x + dx, !.y = vpt.y + dy]

\* canvas.getPointer(e) without ignoreZoom: the pointer in scene coordinates.
ScenePointer(vpt, ex, ey) ==
    [x |-> ((ex - vpt.x) * ZoomScale) \div vpt.zoom,
     y |-> ((ey - vpt.y) * ZoomScale) \div vpt.zoom]

\* 0.999 ** delta, in 1/PowScale (rounded to the nearest).
Pow999(delta) ==
    CASE delta = 2400 -> 91
      [] delta = 693 -> 500
      [] delta = 100 -> 905
      [] delta = 0 -> PowScale
      [] delta = -100 -> 1105
      [] delta = -693 -> 2000
      [] delta = -2400 -> 11036

Clamp(v, lo, hi) == Min(Max(v, lo), hi)

\* The zoom the mouse:wheel handler applies: zoom *= 0.999 ** delta, capped at
\* 10, then raised to minZoom.
WheelZoom(zoom, delta) ==
    LET scaled == (zoom * Pow999(delta)) \div PowScale
        capped == IF scaled > MAX_ZOOM * ZoomScale THEN MAX_ZOOM * ZoomScale
                  ELSE scaled
        minZoom == Min((canvasWidth * ZoomScale) \div fabricWidth,
                       (canvasHeight * ZoomScale) \div fabricHeight) \div 2
    IN  IF capped < minZoom THEN minZoom ELSE capped

\* The wheel handler's clamp of viewportTransform[4], [5] after zoomToPoint.
ClampOffsets(vpt, zoom) ==
    LET maxOffsetX == Max(((canvasWidth * zoom) \div ZoomScale) - canvasWidth, 0)
        maxOffsetY == Max(((canvasHeight * zoom) \div ZoomScale) - canvasHeight, 0)
    IN  [vpt EXCEPT !.x = Min(Max(vpt.x, -maxOffsetX), 0),
                    !.y = Min(Max(vpt.y, -maxOffsetY), 0)]

\* e.button === 3
IsRightButton_Any(button) == TRUE

IsRightButton(button) == button = 3

\* mouse:down's test "Prevent dragging if content is smaller than canvas".
ContentLargerThanCanvas(zoom) ==
    \/ canvasWidth * zoom > canvasWidth * ZoomScale
    \/ canvasHeight * zoom > canvasHeight * ZoomScale

----------------------------------------------------------------------------
(* Background image effect *)

NoParam == "(none)"
StreamlitUrls == {NoParam, "not a url", "http://localhost:8501/app"}

\* getStreamlitBaseUrl() ?? "": the origin of the streamlitUrl parameter, ""
\* when it is absent or no URL.
StreamlitBaseUrl(param) ==
    CASE param = NoParam -> ""
      [] param = "http://localhost:8501/app" -> "http://localhost:8501"
      [] OTHER -> ""

ImageURLs == {"", "/media/a.png", "/media/b.png"}

\* "Update background image": a non-empty URL starts an image load whose
\* onload will add the image, sized to the canvas props of this render.
BackgroundEffect(url, w, h) ==
    IF url # ""
    THEN /\ nLoads < MaxLoads
         /\ nLoads' = nLoads + 1
         /\ pendingLoads' = pendingLoads \cup
                {[id |-> nLoads + 1, base |-> StreamlitBaseUrl(streamlitUrl),
                  url |-> url, width |-> w, height |-> h]}
    ELSE UNCHANGED <<nLoads, pendingLoads>>

----------------------------------------------------------------------------
(* Initial state: the widget is mounted, both canvases are created at the  *)
(* size of the props, the initial drawing is loaded and resetState ran.    *)

Ev(t, b, p) == [type |-> t, button |-> b, panned |-> p]

InitWidget ==
    /\ canvasWidth \in Sizes
    /\ canvasHeight \in Sizes
    /\ fabricWidth = canvasWidth
    /\ fabricHeight = canvasHeight
    /\ realtimeUpdateStreamlit \in BOOLEAN
    /\ initialDrawing \in Docs
    /\ canvasVpt = IdentityVpt
    /\ backgroundVpt = IdentityVpt
    /\ canvasObjects = LoadFromJSON(initialDrawing)
    /\ canvasState = ResetState([history |-> <<>>], initialDrawing)
    /\ shouldSendToStreamlit =
           ShouldSendToStreamlit(realtimeUpdateStreamlit, canvasState)
    /\ stateToSendToStreamlit = StateToSendToStreamlit(canvasState)
    /\ hostValue = NoValue
    /\ isDragging = FALSE
    /\ lastPosX = 0
    /\ lastPosY = 0
    /\ backgroundObjects = <<>>
    /\ lastEvent = Ev("mount", 0, FALSE)

Init ==
    /\ InitWidget
    /\ streamlitUrl = NoParam
    /\ backgroundImageURL = ""
    /\ pendingLoads = {}
    /\ nLoads = 0

----------------------------------------------------------------------------
(* Pointer handlers registered by the tool effect.  The selected tool's    *)
(* own handler is registered first (configureCanvas) and runs first.       *)

MouseWheel(deltaY, ex, ey) ==
    LET zoom == WheelZoom(canvasVpt.zoom, deltaY)
        px == Min(Max(ex, 0), canvasWidth)
        py == Min(Max(ey, 0), canvasHeight)
    IN  /\ canvasVpt' = ClampOffsets(ZoomToPoint(canvasVpt, px, py, zoom), zoom)
        /\ backgroundVpt' =
               ClampOffsets(ZoomToPoint(backgroundVpt, px, py, zoom), zoom)
        /\ lastEvent' = Ev("mouse:wheel", 0, FALSE)
        /\ UNCHANGED <<propVars, fabricWidth, fabricHeight, dragVars, stateVars,
                       imageVars, hostValue>>

MouseDown(button, ex, ey, edit) ==
    /\ canvasObjects' = ToolEdit(canvasObjects, edit)
    /\ IF IsRightButton(button) /\ ContentLargerThanCanvas(canvasVpt.zoom)
       THEN /\ isDragging' = TRUE
            /\ lastPosX' = ScenePointer(canvasVpt, ex, ey).x
            /\ lastPosY' = ScenePointer(canvasVpt, ex, ey).y
       ELSE UNCHANGED dragVars
    /\ lastEvent' = Ev("mouse:down", button, FALSE)
    /\ UNCHANGED <<propVars, viewVars, canvasState, shouldSendToStreamlit,
                   stateToSendToStreamlit, imageVars, hostValue>>

MouseMove(ex, ey, edit) ==
    /\ canvasObjects' = ToolEdit(canvasObjects, edit)
    /\ IF isDragging
       THEN LET dx == Min(Max(ex - lastPosX, -canvasWidth), canvasWidth)
                dy == Min(Max(ey - lastPosY, -canvasHeight), canvasHeight)
            IN  /\ canvasVpt' = RelativePan(canvasVpt, dx, dy)
                /\ backgroundVpt' = RelativePan(backgroundVpt, dx, dy)
                /\ canvasVpt'.x \in -MaxPan..MaxPan
                /\ canvasVpt'.y \in -MaxPan..MaxPan
                /\ lastPosX' = ex
                /\ lastPosY' = ey
                /\ UNCHANGED <<isDragging, fabricWidth, fabricHeight>>
       ELSE UNCHANGED <<viewVars, dragVars>>
    /\ lastEvent' = Ev("mouse:move", 0, isDragging)
    /\ UNCHANGED <<propVars, canvasState, shouldSendToStreamlit,
                   stateToSendToStreamlit, imageVars, hostValue>>

MouseUp(button, edit) ==
    LET objs == ToolEdit(canvasObjects, edit)
        saved == SaveState(canvasState, ToJSON(objs))
    IN  /\ IF IsRightButton(button)
           THEN /\ isDragging' = FALSE
                /\ UNCHANGED <<lastPosX, lastPosY>>
                /\ Render(realtimeUpdateStreamlit, ForceStreamlitUpdate(saved), objs)
           ELSE /\ UNCHANGED dragVars
                /\ Render(realtimeUpdateStreamlit, saved, objs)
        /\ lastEvent' = Ev("mouse:up", button, FALSE)
        /\ UNCHANGED <<propVars, viewVars, imageVars, hostValue>>

\* No mouse:dblclick handler is registered by the widget: only the tool's runs.
MouseDblClick(edit) ==
    /\ canvasObjects' = ToolEdit(canvasObjects, edit)
    /\ lastEvent' = Ev("mouse:dblclick", 1, FALSE)
    /\ UNCHANGED <<propVars, viewVars, dragVars, canvasState,
                   shouldSendToStreamlit, stateToSendToStreamlit, imageVars,
                   hostValue>>

----------------------------------------------------------------------------
(* Toolbar callbacks *)

\* undoCallback={undo}; the button is enabled by canUndo.
ToolbarUndo ==
    /\ CanUndo(canvasState)
    /\ Render(realtimeUpdateStreamlit, Undo(canvasState), canvasObjects)
    /\ lastEvent' = Ev("undo", 0, FALSE)
    /\ UNCHANGED <<propVars, viewVars, dragVars, imageVars, hostValue>>

\* redoCallback={redo}; the button is enabled by canRedo.
ToolbarRedo ==
    /\ CanRedo(canvasState)
    /\ Render(realtimeUpdateStreamlit, Redo(canvasState), canvasObjects)
    /\ lastEvent' = Ev("redo", 0, FALSE)
    /\ UNCHANGED <<propVars, viewVars, dragVars, imageVars, hostValue>>

\* downloadCallback={forceStreamlitUpdate}
ToolbarDownload ==
    /\ Render(realtimeUpdateStreamlit, ForceStreamlitUpdate(canvasState),
              canvasObjects)
    /\ lastEvent' = Ev("download", 0, FALSE)
    /\ UNCHANGED <<propVars, viewVars, dragVars, imageVars, hostValue>>

ResetZoom_CanvasOnly ==
    /\ canvasVpt' = IdentityVpt
    /\ UNCHANGED backgroundVpt

\* resetZoom(): both canvases back to zoom 1 and the identity transform.
ResetZoom ==
    /\ canvasVpt' = IdentityVpt
    /\ backgroundVpt' = IdentityVpt

\* resetCallback: resetState(initialState), then resetZoom().
ToolbarReset ==
    /\ Render(realtimeUpdateStreamlit,
              ResetState(canvasState, canvasState.initialState), canvasObjects)
    /\ ResetZoom
    /\ lastEvent' = Ev("reset", 0, FALSE)
    /\ UNCHANGED <<propVars, fabricWidth, fabricHeight, dragVars, imageVars,
                   hostValue>>

----------------------------------------------------------------------------
(* The host: new args, and the emitter's push *)

\* New canvasWidth / canvasHeight: the canvases keep the size they were
\* created with; the tool effect and the background effect run again.
SetCanvasSize(w, h) ==
    /\ <<w, h>> # <<canvasWidth, canvasHeight>>
    /\ canvasWidth' = w
    /\ canvasHeight' = h
    /\ RegisterHandlers
    /\ BackgroundEffect(backgroundImageURL, w, h)
    /\ lastEvent' = Ev("args", 0, FALSE)
    /\ UNCHANGED <<realtimeUpdateStreamlit, initialDrawing, viewVars, stateVars,
                   backgroundImageURL, backgroundObjects, streamlitUrl, hostValue>>

\* New args carrying initialDrawing (a new object on every message): the
\* tool effect runs again, and the drawing is loaded when it differs from
\* initialState.
SetInitialDrawing(d) ==
    /\ initialDrawing' = d
    /\ RegisterHandlers
    /\ IF canvasState.initialState # d
       THEN Render(realtimeUpdateStreamlit, ResetState(canvasState, d),
                   LoadFromJSON(d))
       ELSE UNCHANGED stateVars
    /\ lastEvent' = Ev("args", 0, FALSE)
    /\ UNCHANGED <<canvasWidth, canvasHeight, realtimeUpdateStreamlit, viewVars,
                   imageVars, hostValue>>

\* New realtimeUpdateStreamlit.
SetRealtimeUpdateStreamlit(b) ==
    /\ b # realtimeUpdateStreamlit
    /\ realtimeUpdateStreamlit' = b
    /\ Render(b, canvasState, canvasObjects)
    /\ lastEvent' = Ev("args", 0, FALSE)
    /\ UNCHANGED <<canvasWidth, canvasHeight, initialDrawing, viewVars, dragVars,
                   imageVars, hostValue>>

\* <UpdateStreamlit>: pushes stateToSendToStreamlit to the host when
\* shouldSendToStreamlit is set.
UpdateStreamlit ==
    /\ shouldSendToStreamlit
    /\ hostValue # stateToSendToStreamlit
    /\ hostValue' = stateToSendToStreamlit
    /\ UNCHANGED <<propVars, viewVars, dragVars, stateVars, imageVars, lastEvent>>

\* New backgroundImageURL: the background effect runs again.
SetBackgroundImageURL(url) ==
    /\ url # backgroundImageURL
    /\ backgroundImageURL' = url
    /\ BackgroundEffect(url, canvasWidth, canvasHeight)
    /\ lastEvent' = Ev("args", 0, FALSE)
    /\ UNCHANGED <<propVars, viewVars, dragVars, stateVars, backgroundObjects,
                   streamlitUrl, hostValue>>

\* bgImage.onload: the loaded image is added on top of backgroundCanvas.
ImageOnLoad(load) ==
    /\ load \in pendingLoads
    /\ pendingLoads' = pendingLoads \ {load}
    /\ backgroundObjects' = Append(backgroundObjects, load)
    /\ lastEvent' = Ev("load", 0, FALSE)
    /\ UNCHANGED <<propVars, viewVars, dragVars, stateVars, backgroundImageURL,
                   nLoads, streamlitUrl, hostValue>>

----------------------------------------------------------------------------
(* Specifications *)

Next ==
    \/ \E d \in WheelDeltas, p \in Pointers : MouseWheel(d, p[1], p[2])
    \/ \E b \in Buttons, p \in Pointers, edit \in ToolEdits :
           MouseDown(b, p[1], p[2], edit)
    \/ \E p \in Pointers, edit \in ToolEdits : MouseMove(p[1], p[2], edit)
    \/ \E b \in Buttons, edit \in ToolEdits : MouseUp(b, edit)
    \/ \E edit \in ToolEdits : MouseDblClick(edit)
    \/ ToolbarUndo
    \/ ToolbarRedo
    \/ ToolbarDownload
    \/ ToolbarReset
    \/ \E w \in Sizes, h \in Sizes : SetCanvasSize(w, h)
    \/ \E d \in Docs : SetInitialDrawing(d)
    \/ \E b \in BOOLEAN : SetRealtimeUpdateStreamlit(b)
    \/ UpdateStreamlit

Spec == Init /\ [][Next]_vars

\* The viewport and the right-button drag: the pointer and wheel handlers,
\* the toolbar's reset and new args, with a tool that leaves the drawing as
\* it is.
InitView ==
    /\ Init
    /\ canvasWidth = 1
    /\ canvasHeight = 1
    /\ realtimeUpdateStreamlit = FALSE
    /\ initialDrawing = ToJSON(<<>>)

NextView ==
    \/ \E d \in WheelDeltas, p \in Pointers : MouseWheel(d, p[1], p[2])
    \/ \E b \in Buttons, p \in Pointers : MouseDown(b, p[1], p[2], "none")
    \/ \E p \in Pointers : MouseMove(p[1], p[2], "none")
    \/ \E b \in Buttons : MouseUp(b, "none")
    \/ ToolbarReset
    \/ \E s \in Sizes : SetCanvasSize(s, s)
    \/ SetInitialDrawing(initialDrawing)

SpecView == InitView /\ [][NextView]_vars

\* The drawing and its history: tool edits at zoom 1, the toolbar, new args
\* and the emitter.
InitHistory ==
    /\ Init
    /\ canvasWidth = 32
    /\ canvasHeight = 32

NextHistory ==
    \/ \E b \in Buttons, edit \in ToolEdits : MouseDown(b, 0, 0, edit)
    \/ \E edit \in ToolEdits : MouseMove(0, 0, edit)
    \/ \E b \in Buttons, edit \in ToolEdits : MouseUp(b, edit)
    \/ \E edit \in ToolEdits : MouseDblClick(edit)
    \/ ToolbarUndo
    \/ ToolbarRedo
    \/ ToolbarDownload
    \/ ToolbarReset
    \/ \E d \in Docs : SetInitialDrawing(d)
    \/ \E b \in BOOLEAN : SetRealtimeUpdateStreamlit(b)
    \/ UpdateStreamlit

SpecHistory == InitHistory /\ [][NextHistory]_vars

\* The background image layer: URL changes and image loads.
InitBackground ==
    /\ InitWidget
    /\ realtimeUpdateStreamlit = FALSE
    /\ initialDrawing = ToJSON(<<>>)
    /\ streamlitUrl \in StreamlitUrls
    /\ backgroundImageURL \in ImageURLs
    /\ nLoads = IF backgroundImageURL = "" THEN 0 ELSE 1
    /\ pendingLoads =
           IF backgroundImageURL = "" THEN {}
           ELSE {[id |-> 1, base |-> StreamlitBaseUrl(streamlitUrl),
                  url |-> backgroundImageURL, width |-> canvasWidth,
                  height |-> canvasHeight]}

NextBackground ==
    \/ \E url \in ImageURLs : SetBackgroundImageURL(url)
    \/ \E load \in pendingLoads : ImageOnLoad(load)
    \/ \E w \in Sizes, h \in Sizes : SetCanvasSize(w, h)

SpecBackground == InitBackground /\ [][NextBackground]_vars

----------------------------------------------------------------------------
(* Claims *)

Zoom == canvasVpt.zoom
PointerEvents == {"mouse:wheel", "mouse:down", "mouse:move", "mouse:up",
                  "mouse:dblclick"}

\* C1: the history is one sequence of snapshots with one current index, the
\* index points inside the sequence, and currentState is the snapshot at it.
C1_HistoryLinear ==
    /\ canvasState.history \in Seq(Docs)
    /\ canvasState.index \in 1..Len(canvasState.history)
    /\ canvasState.currentState = canvasState.history[canvasState.index]

\* C1 witness: after an undo in a history of several snapshots, with
\* snapshots left to redo.
C1_Witness ==
    /\ lastEvent.type = "undo"
    /\ Len(canvasState.history) = MaxHistory
    /\ canvasState.index = 2
    /\ canvasState.history[1] # canvasState.history[2]

\* C2: every gesture that changes the drawing ends with a saveState of the
\* canvas as it is after the change: once a mouse:up or a mouse:dblclick has
\* been handled, the current snapshot is the serialization of the canvas.
C2_EveryEditSaved ==
    lastEvent.type \in {"mouse:up", "mouse:dblclick"}
        => canvasState.currentState = ToJSON(canvasObjects)

\* C3: <UpdateStreamlit> is handed currentState, sending is enabled exactly
\* when realtimeUpdateStreamlit or forceSendToStreamlit is set, and the host
\* is pushed a snapshot only then, and then the current one.
C3_HostGetsCurrentState ==
    /\ [](/\ stateToSendToStreamlit = canvasState.currentState
          /\ shouldSendToStreamlit =
                 (realtimeUpdateStreamlit \/ canvasState.action.forceSendToStreamlit))
    /\ [][hostValue' # hostValue =>
            /\ realtimeUpdateStreamlit \/ canvasState.action.forceSendToStreamlit
            /\ hostValue' = canvasState.currentState]_vars

\* C3 witness: with realtimeUpdateStreamlit off, a forced update has pushed
\* the current snapshot, which is not the initial drawing.
C3_Witness ==
    /\ ~realtimeUpdateStreamlit
    /\ canvasState.action.forceSendToStreamlit
    /\ hostValue = canvasState.currentState
    /\ canvasState.currentState # canvasState.initialState

\* C4: with the canvas created at canvasWidth x canvasHeight, the zoomed
\* content is never smaller than the canvas.
C4_NeverSmallerThanCanvas ==
    (fabricWidth = canvasWidth /\ fabricHeight = canvasHeight)
        => /\ canvasWidth * Zoom >= canvasWidth * ZoomScale
           /\ canvasHeight * Zoom >= canvasHeight * ZoomScale

\* C5: mouse:move never pans while the zoomed content is not larger than the
\* canvas in either dimension.
C5_NoPanWhenContentFits ==
    lastEvent.panned
        => \/ canvasWidth * Zoom > canvasWidth * ZoomScale
           \/ canvasHeight * Zoom > canvasHeight * ZoomScale

\* C6: the drawing canvas and the background canvas have equal zoom and equal
\* viewport translation.
C6_LayersAligned ==
    /\ backgroundVpt.zoom = canvasVpt.zoom
    /\ backgroundVpt.x = canvasVpt.x
    /\ backgroundVpt.y = canvasVpt.y

\* C6 witness: a drag has just panned a zoomed view away from the origin,
\* differently in x and y.
C6_Witness ==
    /\ lastEvent.panned
    /\ Zoom > ZoomScale
    /\ canvasVpt.x # 0
    /\ canvasVpt.x # canvasVpt.y

\* C7: the zoom of both canvases is at most 10.
C7_ZoomAtMost10 ==
    /\ canvasVpt.zoom <= MAX_ZOOM * ZoomScale
    /\ backgroundVpt.zoom <= MAX_ZOOM * ZoomScale

\* C8: isDragging becomes true only on a mouse:down with button 3; mouse:move
\* pans only while isDragging is true; a mouse:up with another button leaves
\* isDragging as it is; every mouse:up with button 3 sets isDragging to false
\* and calls forceStreamlitUpdate; among the pointer handlers only that
\* mouse:up ends a drag.
C8_RightButtonDrag ==
    [][/\ (~isDragging /\ isDragging')
            => lastEvent' = Ev("mouse:down", 3, FALSE)
       /\ (canvasVpt' # canvasVpt /\ lastEvent'.type = "mouse:move")
            => isDragging
       /\ lastEvent'.panned => (isDragging /\ lastEvent'.type = "mouse:move")
       /\ (lastEvent'.type = "mouse:up" /\ lastEvent'.button # 3)
            => isDragging' = isDragging
       /\ (lastEvent'.type = "mouse:up" /\ lastEvent'.button = 3)
            => /\ ~isDragging'
               /\ canvasState'.action.forceSendToStreamlit
       /\ (isDragging /\ ~isDragging' /\ lastEvent'.type \in PointerEvents)
            => lastEvent' = Ev("mouse:up", 3, FALSE)]_vars

\* C8 witness: a right-button mouse:up has ended a drag that panned the view.
C8_Witness ==
    /\ lastEvent = Ev("mouse:up", 3, FALSE)
    /\ ~isDragging
    /\ canvasState.action.forceSendToStreamlit
    /\ canvasVpt.x > 0

\* C9: once every started load has completed, the topmost image of the
\* background canvas is the one loaded for the current backgroundImageURL,
\* and there is no image when the URL is empty.
C9_ShowsCurrentImage ==
    pendingLoads = {}
        => IF backgroundImageURL = ""
           THEN backgroundObjects = <<>>
           ELSE /\ backgroundObjects # <<>>
                /\ backgroundObjects[Len(backgroundObjects)].url
                       = backgroundImageURL

====
